---- MODULE Spec2Model ----
(***************************************************************************)
(* Model of predict.py: the Predictor of cog-yue.                          *)
(*                                                                         *)
(* Text is a sequence of one-character strings.  A file name in the mix    *)
(* directory is a triple <<stem, index, extension>>, so that               *)
(* "output_2.mp3" is <<"output_", 2, ".mp3">> and "a.mp3" is               *)
(* <<"a", 0, ".mp3">>.  A path is a sequence of components.  A model       *)
(* identifier "org/model" is <<org, model>> and a bundle name              *)
(* "models--org--model" is <<"models", org, model>>.                       *)
(***************************************************************************)
EXTENDS Integers, Sequences, FiniteSets, TLC

\* ------------------------------------------------------------------ bounds
MaxRequests == 2
MaxFiles == 2

\* --------------------------------------------------------------- constants
\* an optional integer is <<>> (None) or <<n>>
None == <<>>
SeedMask == 2147483647
StageTwoBatchSize == 4
CudaIdx == 0

\* ------------------------------------------------------------ text helpers
Whitespace == {" ", "\n", "\r", "\t"}

UpperLetters == <<"A", "B", "C", "D", "E", "G", "H", "I", "O", "R", "S", "T", "U", "V">>
LowerLetters == <<"a", "b", "c", "d", "e", "g", "h", "i", "o", "r", "s", "t", "u", "v">>

LowerChar(c) ==
    IF \E i \in 1..Len(UpperLetters) : UpperLetters[i] = c
    THEN LowerLetters[CHOOSE i \in 1..Len(UpperLetters) : UpperLetters[i] = c]
    ELSE c

\* str.lower()
Lower(s) == [i \in 1..Len(s) |-> LowerChar(s[i])]

RECURSIVE LStrip(_)
LStrip(s) ==
    IF s = <<>> THEN <<>>
    ELSE IF Head(s) \in Whitespace THEN LStrip(Tail(s)) ELSE s

RECURSIVE RStrip(_)
RStrip(s) ==
    IF s = <<>> THEN <<>>
    ELSE IF s[Len(s)] \in Whitespace THEN RStrip(SubSeq(s, 1, Len(s) - 1)) ELSE s

\* str.strip()
Strip(s) == RStrip(LStrip(s))

\* tag in text
Contains(text, tag) ==
    \E i \in 1..(Len(text) - Len(tag) + 1) :
        SubSeq(text, i, i + Len(tag) - 1) = tag

\* content.replace("\r\n", "\n")
RECURSIVE ReplaceCRLF(_)
ReplaceCRLF(s) ==
    IF s = <<>> THEN <<>>
    ELSE IF Len(s) >= 2 /\ s[1] = "\r" /\ s[2] = "\n"
         THEN <<"\n">> \o ReplaceCRLF(SubSeq(s, 3, Len(s)))
         ELSE <<Head(s)>> \o ReplaceCRLF(Tail(s))

\* content.replace("\r", "\n")
ReplaceCR(s) == [i \in 1..Len(s) |-> IF s[i] = "\r" THEN "\n" ELSE s[i]]

\* the text create_temp_file writes
TempContent(content) == ReplaceCR(ReplaceCRLF(Strip(content) \o <<"\n", "\n">>))

Digits == <<"0", "1", "2", "3", "4", "5", "6", "7", "8", "9">>

\* str(n)
RECURSIVE Str(_)
Str(n) ==
    IF n < 0 THEN <<"-">> \o Str(0 - n)
    ELSE IF n < 10 THEN <<Digits[n + 1]>>
    ELSE Str(n \div 10) \o <<Digits[(n % 10) + 1]>>

\* --------------------------------------------------------------- validation
Tags ==
    { <<"[", "v", "e", "r", "s", "e", "]">>,
      <<"[", "c", "h", "o", "r", "u", "s", "]">>,
      <<"[", "b", "r", "i", "d", "g", "e", "]">>,
      <<"[", "o", "u", "t", "r", "o", "]">> }

LyricsEmpty(lyrics) == Strip(lyrics) = <<>>

HasTag(lyrics) == \E tag \in Tags : Contains(Lower(lyrics), tag)

\* the genre test without strip(): white space counts as a description
GenreEmptyUnstripped(genre_description) == genre_description = <<>>

GenreEmpty(genre_description) == Strip(genre_description) = <<>>

\* the first validation that fails, in the order of the code
ValidationError(r) ==
    IF LyricsEmpty(r.lyrics) THEN "ValueError"
    ELSE IF ~HasTag(r.lyrics) THEN "ValueError"
    ELSE IF GenreEmpty(r.genre_description) THEN "ValueError"
    ELSE "none"

\* --------------------------------------------------------------------- seed
\* int.from_bytes(bytes4, "big") & 0x7FFFFFFF: the mask clears the top bit of
\* the first byte
MaskSeed(bytes4) ==
    (bytes4[1] % 128) * 16777216 + bytes4[2] * 65536 + bytes4[3] * 256 + bytes4[4]

\* only an unset seed is replaced: zero and negative seeds pass through
seed_or_random_seed_unset_only(seed, urandom) ==
    IF seed = None THEN MaskSeed(urandom) ELSE seed[1]

\* "not seed" is true of None and of 0
seed_or_random_seed(seed, urandom) ==
    IF seed = None \/ seed[1] = 0 \/ seed[1] <= 0
    THEN MaskSeed(urandom)
    ELSE seed[1]

\* ------------------------------------------------------------ model bundles
models ==
    << <<"models", "m-a-p", "YuE-s1-7B-anneal-en-cot">>,
       <<"models", "Alissonerdx", "YuE-s2-1B-general-int8">>,
       <<"models", "Alissonerdx", "YuE-s1-7B-anneal-en-cot-nf4">>,
       <<"xcodec_mini_infer">> >>

QuantizationStage1Choices == {"bf16", "int8", "nf4"}
QuantizationStage2Choices == {"bf16", "int8"}

stage_1_model ==
    [q \in QuantizationStage1Choices |->
        CASE q = "bf16" -> <<"m-a-p", "YuE-s1-7B-anneal-en-cot">>
          [] q = "int8" -> <<"Alissonerdx", "YuE-s1-7B-anneal-en-cot-int8">>
          [] q = "nf4" -> <<"Alissonerdx", "YuE-s1-7B-anneal-en-cot-nf4">>]

stage_2_model ==
    [q \in QuantizationStage2Choices |->
        CASE q = "bf16" -> <<"m-a-p", "YuE-s2-1B-general">>
          [] q = "int8" -> <<"Alissonerdx", "YuE-s2-1B-general-int8">>]

\* "models--" in model
IsModelsBundle(model) == \E i \in 1..(Len(model) - 1) : model[i] = "models"

DestDir(model) ==
    IF IsModelsBundle(model) THEN <<"src", "inference", "models">>
    ELSE <<"src", "inference">>

BundlePath(model) == <<DestDir(model), model>>

ModelBundles == {models[i] : i \in 1..Len(models)}

\* -------------------------------------------------------------------- state
VARIABLES
    \* setup
    setup_pc,        \* "download", "check", "done", "failed"
    setup_i,         \* index in models of the bundle being resolved
    dirs,            \* destination directories that exist
    present,         \* bundle paths <<dest_dir, filename>> that exist
    visited,         \* the bundles whose presence was tested, in order
    \* predict
    pc,              \* position of the request being served
    reqNo,           \* number of requests begun
    req,             \* the inputs of the request
    seed,            \* the resolved seed
    genre_file,      \* name of the staged genre file, <<>> until created
    lyrics_file,     \* name of the staged lyrics file, <<>> until created
    tmpFiles,        \* temporary directory: name -> content
    outExists,       \* /src/output exists
    outEntries,      \* entries of /src/output
    mixExists,       \* /src/output/vocoder/mix exists
    mixFiles,        \* /src/output/vocoder/mix: name -> content
    to_remove,       \* os.listdir(output_dir) not yet visited
    cwd,             \* working directory of the process
    command,         \* argument vector of the last launch, <<>> if none
    launches,        \* subprocess launches in this request
    exitCode,        \* exit status of the subprocess, <<>> until it exits
    mp3_files,       \* the listing being renamed
    idx,             \* enumerate index (0-based) of the next rename
    output_files,    \* paths collected so far
    renames,         \* os.rename calls of this request, in order
    exc,             \* exception pending in the try block
    result,          \* outcome of the last finished request
    pre              \* the disk and process state when the request began

setupVars == <<setup_pc, setup_i, dirs, present, visited>>

predictVars ==
    <<pc, reqNo, req, seed, genre_file, lyrics_file, tmpFiles, outExists,
      outEntries, mixExists, mixFiles, to_remove, cwd, command, launches,
      exitCode, mp3_files, idx, output_files, renames, exc, result, pre>>

vars == <<setupVars, predictVars>>

\* ------------------------------------------------------------------- inputs
LyricsInputs ==
    { <<>>,
      <<" ", "\n">>,
      <<"h", "i">>,
      <<"[", "v", "e", "r", "s", "e">>,
      <<"[", "v", "e", "r", "s", "e", "]", "\n", "h", "i">>,
      <<"c", "h", "o", "r", "u", "s", "]", "[", "b", "r", "i", "d", "g", "e">>,
      <<" ", "[", "O", "u", "t", "r", "o", "]", "\r", "\n", "h", "\r">> }

GenreInputs ==
    { <<>>,
      <<" ", "\t">>,
      <<"p", "o", "p">> }

SeedInputs == {None, <<42>>}

\* values of os.urandom(4)
UrandomInputs == {<<255, 255, 255, 255>>}

\* seeds and random bytes for the resolution of the seed on its own
AllSeedInputs ==
    {None, <<0>>, <<-1>>, <<0 - SeedMask>>, <<1>>, <<42>>, <<SeedMask - 1>>,
     <<SeedMask>>}

AllUrandomInputs ==
    { <<0, 0, 0, 0>>, <<0, 0, 0, 1>>, <<1, 2, 3, 4>>, <<127, 255, 255, 255>>,
      <<128, 0, 0, 0>>, <<128, 0, 1, 0>>, <<129, 2, 3, 4>>, <<255, 255, 255, 255>> }

\* the defaults of the inputs, lines 54-84 (texts abridged)
DefaultRequest ==
    [genre_description |-> <<"p", "o", "p">>,
     lyrics |-> <<"[", "v", "e", "r", "s", "e", "]", "\n", "h", "i">>,
     num_segments |-> 2,
     max_new_tokens |-> 1500,
     seed |-> None,
     quantization_stage1 |-> "bf16",
     quantization_stage2 |-> "bf16"]

\* requests that differ from the defaults in the texts, in the seed or in the
\* quantization choices
Requests ==
    {[DefaultRequest EXCEPT !.genre_description = g, !.lyrics = l] :
        g \in GenreInputs, l \in LyricsInputs}
    \cup {[DefaultRequest EXCEPT !.seed = s] : s \in SeedInputs}
    \cup {[DefaultRequest EXCEPT !.quantization_stage1 = q] :
            q \in QuantizationStage1Choices}
    \cup {[DefaultRequest EXCEPT !.quantization_stage2 = q] :
            q \in QuantizationStage2Choices}

\* names the inference script may leave in the mix directory
MixNames ==
    { <<"a", 0, ".mp3">>,
      <<"output", 0, ".mp3">>,
      <<"output_", 1, ".mp3">>,
      <<"n", 0, ".wav">> }

output_dir == <<"src", "output">>

\* requests that differ from the defaults in the seed only
SeedRequests == {[DefaultRequest EXCEPT !.seed = s] : s \in AllSeedInputs}

\* ----------------------------------------------------------------- setup
\* a download that does not look for the bundle first
MustFetchAlways(model) == TRUE

\* not os.path.exists(f"{dest_dir}/{filename}")
MustFetch(model) == BundlePath(model) \notin present

\* one entry of the log per bundle whose presence was tested
Visit(model, fetched, status) ==
    [filename |-> model, dest_dir |-> DestDir(model),
     existed |-> BundlePath(model) \in present,
     fetched |-> fetched, status |-> status]

\* os.makedirs(dest_dir, exist_ok=True) succeeds
MakeDestDir ==
    /\ setup_pc = "download"
    /\ dirs' = dirs \cup {DestDir(models[setup_i])}
    /\ setup_pc' = "check"
    /\ UNCHANGED <<setup_i, present, visited, predictVars>>

\* os.makedirs(dest_dir, exist_ok=True) raises: setup aborts
MakeDestDirFails ==
    /\ setup_pc = "download"
    /\ DestDir(models[setup_i]) \notin dirs
    /\ setup_pc' = "failed"
    /\ UNCHANGED <<setup_i, dirs, present, visited, predictVars>>

\* the for loop of setup moves to the next bundle, or setup returns
NextBundle ==
    IF setup_i = Len(models)
    THEN setup_pc' = "done" /\ setup_i' = setup_i
    ELSE setup_pc' = "download" /\ setup_i' = setup_i + 1

\* the bundle is present: nothing is fetched
AlreadyExists ==
    /\ setup_pc = "check"
    /\ ~MustFetch(models[setup_i])
    /\ visited' = Append(visited, Visit(models[setup_i], FALSE, 0))
    /\ NextBundle
    /\ UNCHANGED <<dirs, present, predictVars>>

\* the bundle is absent: pget exits 0; what the archive holds is its own affair
FetchSucceeds ==
    /\ setup_pc = "check"
    /\ MustFetch(models[setup_i])
    /\ visited' = Append(visited, Visit(models[setup_i], TRUE, 0))
    /\ \E extracted \in BOOLEAN :
          present' = IF extracted THEN present \cup {BundlePath(models[setup_i])}
                     ELSE present
    /\ NextBundle
    /\ UNCHANGED <<dirs, predictVars>>

\* the bundle is absent: pget exits non-zero, check_call raises, setup aborts
FetchFails ==
    /\ setup_pc = "check"
    /\ MustFetch(models[setup_i])
    /\ visited' = Append(visited, Visit(models[setup_i], TRUE, 1))
    /\ setup_pc' = "failed"
    /\ UNCHANGED <<setup_i, dirs, present, predictVars>>

\* --------------------------------------------------------------- predict
NoFiles == [n \in {} |-> <<>>]

mix_dir == output_dir \o <<"vocoder", "mix">>

\* what a request remembers of the state it began in
Snapshot == [outEntries |-> outEntries, cwd |-> cwd]

\* an exception leaves predict: the caller gets the error and no paths
Raised(e) == [status |-> e, outputs |-> <<>>]

\* lines 87-102: resolve the seed, then validate
Validate(r, urandom) ==
    /\ pc = "idle"
    /\ setup_pc = "done"
    /\ reqNo < MaxRequests
    /\ reqNo' = reqNo + 1
    /\ req' = r
    /\ seed' = seed_or_random_seed(r.seed, urandom)
    /\ pre' = Snapshot
    /\ IF ValidationError(r) = "none"
       THEN pc' = "stage_genre" /\ result' = <<>>
       ELSE pc' = "done" /\ result' = Raised(ValidationError(r))
    /\ UNCHANGED <<setupVars, genre_file, lyrics_file, tmpFiles, outExists,
                   outEntries, mixExists, mixFiles, to_remove, cwd, command,
                   launches, exitCode, mp3_files, idx, output_files, renames,
                   exc>>

\* tempfile.NamedTemporaryFile picks a name no file has
TempName(prefix) == <<prefix, reqNo>>

\* line 115: create_temp_file(genre_description, "genre_")
StageGenre ==
    /\ pc = "stage_genre"
    /\ genre_file' = TempName("genre_")
    /\ tmpFiles' = (TempName("genre_") :> TempContent(req.genre_description)) @@ tmpFiles
    /\ pc' = "stage_lyrics"
    /\ UNCHANGED <<setupVars, reqNo, req, seed, lyrics_file, outExists,
                   outEntries, mixExists, mixFiles, to_remove, cwd, command,
                   launches, exitCode, mp3_files, idx, output_files, renames,
                   exc, result, pre>>

\* line 116: create_temp_file(lyrics, "lyrics_")
StageLyrics ==
    /\ pc = "stage_lyrics"
    /\ lyrics_file' = TempName("lyrics_")
    /\ tmpFiles' = (TempName("lyrics_") :> TempContent(req.lyrics)) @@ tmpFiles
    /\ pc' = "makedirs"
    /\ UNCHANGED <<setupVars, reqNo, req, seed, genre_file, outExists,
                   outEntries, mixExists, mixFiles, to_remove, cwd, command,
                   launches, exitCode, mp3_files, idx, output_files, renames,
                   exc, result, pre>>

\* create_temp_file raises: the file could not be created (created = FALSE),
\* or it was created (delete=False) and write or close raised
StageFails(created) ==
    /\ pc \in {"stage_genre", "stage_lyrics"}
    /\ tmpFiles' =
         IF created
         THEN (TempName(IF pc = "stage_genre" THEN "genre_" ELSE "lyrics_") :> <<>>)
              @@ tmpFiles
         ELSE tmpFiles
    /\ pc' = "done"
    /\ result' = Raised("OSError")
    /\ UNCHANGED <<setupVars, reqNo, req, seed, genre_file, lyrics_file,
                   outExists, outEntries, mixExists, mixFiles, to_remove, cwd,
                   command, launches, exitCode, mp3_files, idx, output_files,
                   renames, exc, pre>>

\* a listing that leaves the subdirectories out
ListOutputDirFilesOnly == {e \in outEntries : e.kind = "file"}

\* os.listdir(output_dir)
ListOutputDir == outEntries

\* lines 120-123: os.makedirs(output_dir, exist_ok=True); os.listdir(output_dir)
MakeOutputDir ==
    /\ pc = "makedirs"
    /\ outExists' = TRUE
    /\ to_remove' = ListOutputDir
    /\ pc' = IF ListOutputDir = {} THEN "chdir" ELSE "empty"
    /\ UNCHANGED <<setupVars, reqNo, req, seed, genre_file, lyrics_file,
                   tmpFiles, outEntries, mixExists, mixFiles, cwd, command,
                   launches, exitCode, mp3_files, idx, output_files, renames,
                   exc, result, pre>>

\* os.makedirs raises: outside the try block, the exception leaves predict
MakeOutputDirFails ==
    /\ pc = "makedirs"
    /\ ~outExists
    /\ pc' = "done"
    /\ result' = Raised("OSError")
    /\ UNCHANGED <<setupVars, reqNo, req, seed, genre_file, lyrics_file,
                   tmpFiles, outExists, outEntries, mixExists, mixFiles,
                   to_remove, cwd, command, launches, exitCode, mp3_files, idx,
                   output_files, renames, exc, pre>>

\* lines 123-128: one iteration of the emptying loop; shutil.rmtree takes a
\* directory with all below it, os.remove takes anything else
EmptyOutputDir ==
    /\ pc = "empty"
    /\ \E item \in to_remove :
          /\ outEntries' = outEntries \ {item}
          /\ to_remove' = to_remove \ {item}
          /\ IF item.kind = "dir" /\ item.name = "vocoder"
             THEN mixExists' = FALSE /\ mixFiles' = NoFiles
             ELSE UNCHANGED <<mixExists, mixFiles>>
          /\ pc' = IF to_remove = {item} THEN "chdir" ELSE "empty"
    /\ UNCHANGED <<setupVars, reqNo, req, seed, genre_file, lyrics_file,
                   tmpFiles, outExists, cwd, command, launches, exitCode,
                   mp3_files, idx, output_files, renames, exc, result, pre>>

\* shutil.rmtree or os.remove raises: outside the try block
EmptyOutputDirFails ==
    /\ pc = "empty"
    /\ pc' = "done"
    /\ result' = Raised("OSError")
    /\ UNCHANGED <<setupVars, reqNo, req, seed, genre_file, lyrics_file,
                   tmpFiles, outExists, outEntries, mixExists, mixFiles,
                   to_remove, cwd, command, launches, exitCode, mp3_files, idx,
                   output_files, renames, exc, pre>>

\* directories of the image and of setup
FsDirs == dirs \cup {<<>>, <<"src">>}

\* the directory a relative path names
Resolve(component) ==
    IF component = ".."
    THEN (IF cwd = <<>> THEN <<>> ELSE SubSeq(cwd, 1, Len(cwd) - 1))
    ELSE cwd \o <<component>>

\* line 132: os.chdir("./inference"), inside the try block
ChdirInference ==
    /\ pc = "chdir"
    /\ IF Resolve("inference") \in FsDirs
       THEN cwd' = Resolve("inference") /\ pc' = "launch" /\ exc' = exc
       ELSE cwd' = cwd /\ pc' = "finally_genre" /\ exc' = "FileNotFoundError"
    /\ UNCHANGED <<setupVars, reqNo, req, seed, genre_file, lyrics_file,
                   tmpFiles, outExists, outEntries, mixExists, mixFiles,
                   to_remove, command, launches, exitCode, mp3_files, idx,
                   output_files, renames, result, pre>>

\* lines 149-176: the argument vector
Command ==
    [stage1_model |-> stage_1_model[req.quantization_stage1],
     stage2_model |-> stage_2_model[req.quantization_stage2],
     genre_txt |-> genre_file,
     lyrics_txt |-> lyrics_file,
     run_n_segments |-> Str(req.num_segments),
     stage2_batch_size |-> Str(StageTwoBatchSize),
     output_dir |-> output_dir,
     cuda_idx |-> Str(CudaIdx),
     max_new_tokens |-> Str(req.max_new_tokens),
     seed |-> Str(seed),
     quantization_stage1 |-> req.quantization_stage1,
     quantization_stage2 |-> req.quantization_stage2]

\* line 178: subprocess.run(command, check=True) starts the inference script
Launch ==
    /\ pc = "launch"
    /\ command' = Command
    /\ launches' = launches + 1
    /\ pc' = "running"
    /\ UNCHANGED <<setupVars, reqNo, req, seed, genre_file, lyrics_file,
                   tmpFiles, outExists, outEntries, mixExists, mixFiles,
                   to_remove, cwd, exitCode, mp3_files, idx, output_files,
                   renames, exc, result, pre>>

Entry(name, kind) == [name |-> name, kind |-> kind, born |-> reqNo]

\* the files the inference script may leave in the mix directory
Productions == {S \in SUBSET MixNames : Cardinality(S) <= MaxFiles}

\* subprocess.run without check=True: the exit status is ignored
ExitRaisesNever(code) == FALSE

\* check=True: a non-zero exit status raises CalledProcessError
ExitRaises(code) == code # 0

\* line 178: the inference script exits; it may have written below the
\* output directory whatever its exit status is
SubprocessExits(code, mkmix, files) ==
    /\ pc = "running"
    /\ exitCode' = <<code>>
    /\ outEntries' = outEntries
                        \cup {Entry("stage1", "dir")}
                        \cup (IF mkmix THEN {Entry("vocoder", "dir")} ELSE {})
    /\ mixExists' = (mixExists \/ mkmix)
    /\ mixFiles' = IF mkmix THEN [n \in files |-> <<n, reqNo>>] @@ mixFiles
                    ELSE mixFiles
    /\ IF ExitRaises(code)
       THEN pc' = "finally_genre" /\ exc' = "CalledProcessError"
       ELSE pc' = "chdir_back" /\ exc' = exc
    /\ UNCHANGED <<setupVars, reqNo, req, seed, genre_file, lyrics_file,
                   tmpFiles, outExists, to_remove, cwd, command, launches,
                   mp3_files, idx, output_files, renames, result, pre>>

\* f.endswith(".mp3")
EndsWithMp3(f) == f[3] = ".mp3"

\* the orders in which a directory listing may give the names of S
Listings(S) ==
    {l \in [1..Cardinality(S) -> S] : \A i, j \in DOMAIN l : l[i] = l[j] => i = j}

\* lines 181-187: os.chdir(".."), then list the mix directory if it exists
ListMixDir ==
    /\ pc = "chdir_back"
    /\ cwd' = Resolve("..")
    /\ IF mixExists
       THEN \E l \in Listings({f \in DOMAIN mixFiles : EndsWithMp3(f)}) :
              /\ mp3_files' = l
              /\ pc' = IF l = <<>> THEN "finally_genre" ELSE "rename"
       ELSE mp3_files' = <<>> /\ pc' = "finally_genre"
    /\ UNCHANGED <<setupVars, reqNo, req, seed, genre_file, lyrics_file,
                   tmpFiles, outExists, outEntries, mixExists, mixFiles,
                   to_remove, command, launches, exitCode, idx, output_files,
                   renames, exc, result, pre>>

\* indexed names that start at output_0.mp3
NewNameZeroBased(i, n) ==
    IF n = 1 THEN <<"output", 0, ".mp3">> ELSE <<"output_", i, ".mp3">>

\* lines 190-192: the name the file at enumerate index i gets
NewName(i, n) ==
    IF n = 1 THEN <<"output", 0, ".mp3">> ELSE <<"output_", i + 1, ".mp3">>

\* os.rename(old, new) in one directory: new is replaced if it exists
RenameIn(files, old, new) ==
    IF old = new THEN files
    ELSE [f \in (DOMAIN files \ {old}) \cup {new} |->
             IF f = new THEN files[old] ELSE files[f]]

\* lines 188-195: one iteration of the renaming loop
RenameOutput ==
    /\ pc = "rename"
    /\ LET file == mp3_files[idx + 1]
           new_name == NewName(idx, Len(mp3_files))
       IN /\ mixFiles' = RenameIn(mixFiles, file, new_name)
          /\ renames' = Append(renames, <<mix_dir \o <<file>>, mix_dir \o <<new_name>> >>)
          /\ output_files' = Append(output_files, mix_dir \o <<new_name>>)
    /\ idx' = idx + 1
    /\ pc' = IF idx + 1 = Len(mp3_files) THEN "finally_genre" ELSE "rename"
    /\ UNCHANGED <<setupVars, reqNo, req, seed, genre_file, lyrics_file,
                   tmpFiles, outExists, outEntries, mixExists, to_remove, cwd,
                   command, launches, exitCode, mp3_files, exc, result, pre>>

\* os.rename raises: the exception goes through the finally block
RenameOutputFails ==
    /\ pc = "rename"
    /\ exc' = "OSError"
    /\ pc' = "finally_genre"
    /\ UNCHANGED <<setupVars, reqNo, req, seed, genre_file, lyrics_file,
                   tmpFiles, outExists, outEntries, mixExists, mixFiles,
                   to_remove, cwd, command, launches, exitCode, mp3_files, idx,
                   output_files, renames, result, pre>>

\* os.remove(path) in the temporary directory
RemoveTemp(files, name) == [f \in DOMAIN files \ {name} |-> files[f]]

\* line 201: os.remove(genre_file)
RemoveGenreFile ==
    /\ pc = "finally_genre"
    /\ tmpFiles' = RemoveTemp(tmpFiles, genre_file)
    /\ pc' = "finally_lyrics"
    /\ UNCHANGED <<setupVars, reqNo, req, seed, genre_file, lyrics_file,
                   outExists, outEntries, mixExists, mixFiles, to_remove, cwd,
                   command, launches, exitCode, mp3_files, idx, output_files,
                   renames, exc, result, pre>>

\* line 202: os.remove(lyrics_file), then the return or the pending exception
RemoveLyricsFile ==
    /\ pc = "finally_lyrics"
    /\ tmpFiles' = RemoveTemp(tmpFiles, lyrics_file)
    /\ pc' = "done"
    /\ result' = IF exc = "none"
                  THEN [status |-> "ok", outputs |-> output_files]
                  ELSE Raised(exc)
    /\ UNCHANGED <<setupVars, reqNo, req, seed, genre_file, lyrics_file,
                   outExists, outEntries, mixExists, mixFiles, to_remove, cwd,
                   command, launches, exitCode, mp3_files, idx, output_files,
                   renames, exc, pre>>

\* os.remove raises in the finally block: its exception replaces the outcome
\* and the rest of the block is skipped
RemoveFails ==
    /\ pc \in {"finally_genre", "finally_lyrics"}
    /\ pc' = "done"
    /\ result' = Raised("OSError")
    /\ UNCHANGED <<setupVars, reqNo, req, seed, genre_file, lyrics_file,
                   tmpFiles, outExists, outEntries, mixExists, mixFiles,
                   to_remove, cwd, command, launches, exitCode, mp3_files, idx,
                   output_files, renames, exc, pre>>

\* predict has returned or raised: its local variables are gone, the serving
\* loop takes the outcome and waits for the next request
Return ==
    /\ pc = "done"
    /\ pc' = "idle"
    /\ req' = <<>>
    /\ seed' = 0
    /\ pre' = <<>>
    /\ genre_file' = <<>>
    /\ lyrics_file' = <<>>
    /\ to_remove' = {}
    /\ command' = <<>>
    /\ launches' = 0
    /\ exitCode' = <<>>
    /\ mp3_files' = <<>>
    /\ idx' = 0
    /\ output_files' = <<>>
    /\ renames' = <<>>
    /\ exc' = "none"
    /\ result' = <<>>
    /\ UNCHANGED <<setupVars, reqNo, tmpFiles, outExists, outEntries,
                   mixExists, mixFiles, cwd>>

\* ------------------------------------------------------------ specifications
\* entries a previous deployment may have left in the output directory
StaleEntries ==
    { [name |-> "vocoder", kind |-> "dir", born |-> 0],
      [name |-> "old.mp3", kind |-> "file", born |-> 0],
      [name |-> "stage2", kind |-> "dir", born |-> 0] }

StaleMixFiles == (<<"output", 0, ".mp3">> :> <<<<"output", 0, ".mp3">>, 0>>)

InitPredict ==
    /\ pc = "idle"
    /\ reqNo = 0
    /\ req = <<>>
    /\ seed = 0
    /\ genre_file = <<>>
    /\ lyrics_file = <<>>
    /\ tmpFiles = NoFiles
    /\ outExists \in BOOLEAN
    /\ outEntries \in {S \in {{}} \cup {{e} : e \in StaleEntries} :
                          S # {} => outExists}
    /\ mixExists = (\E e \in outEntries : e.name = "vocoder")
    /\ mixFiles = IF mixExists THEN StaleMixFiles ELSE NoFiles
    /\ to_remove = {}
    /\ cwd = <<"src">>
    /\ command = <<>>
    /\ launches = 0
    /\ exitCode = <<>>
    /\ mp3_files = <<>>
    /\ idx = 0
    /\ output_files = <<>>
    /\ renames = <<>>
    /\ exc = "none"
    /\ result = <<>>
    /\ pre = <<>>

\* setup begins: any of the bundles may already be on disk
SetupInit ==
    /\ setup_pc = "download"
    /\ setup_i = 1
    /\ present \in SUBSET {BundlePath(m) : m \in ModelBundles}
    /\ dirs = {BundlePath(m)[1] : m \in {b \in ModelBundles : BundlePath(b) \in present}}
    /\ visited = <<>>
    /\ InitPredict

SetupNext ==
    \/ MakeDestDir
    \/ MakeDestDirFails
    \/ AlreadyExists
    \/ FetchSucceeds
    \/ FetchFails

SetupSpec == SetupInit /\ [][SetupNext]_vars

\* setup has returned: every bundle of the list was resolved
Init ==
    /\ setup_pc = "done"
    /\ setup_i = Len(models)
    /\ present = {BundlePath(m) : m \in ModelBundles}
    /\ dirs = {DestDir(m) : m \in ModelBundles}
    /\ visited = [i \in 1..Len(models) |->
                    [filename |-> models[i], dest_dir |-> DestDir(models[i]),
                     existed |-> TRUE, fetched |-> FALSE, status |-> 0]]
    /\ InitPredict

Next ==
    \/ \E r \in Requests, urandom \in UrandomInputs : Validate(r, urandom)
    \/ StageGenre
    \/ StageLyrics
    \/ \E created \in BOOLEAN : StageFails(created)
    \/ MakeOutputDir
    \/ MakeOutputDirFails
    \/ EmptyOutputDir
    \/ EmptyOutputDirFails
    \/ ChdirInference
    \/ Launch
    \/ \E code \in {0, 1}, mkmix \in BOOLEAN, files \in Productions :
            SubprocessExits(code, mkmix, files)
    \/ ListMixDir
    \/ RenameOutput
    \/ RenameOutputFails
    \/ RemoveGenreFile
    \/ RemoveLyricsFile
    \/ RemoveFails
    \/ Return

Spec == Init /\ [][Next]_vars

\* the way of one request from its inputs to the launch, for every seed
SeedNext ==
    \/ \E r \in SeedRequests, urandom \in AllUrandomInputs : Validate(r, urandom)
    \/ StageGenre
    \/ StageLyrics
    \/ MakeOutputDir
    \/ EmptyOutputDir
    \/ ChdirInference
    \/ Launch

SeedSpec == Init /\ [][SeedNext]_vars

\* ------------------------------------------------------------------ claims
Range(f) == {f[i] : i \in DOMAIN f}

\* text that is empty or holds white space only
IsBlank(text) == \A i \in 1..Len(text) : text[i] \in Whitespace

\* text in which no tag occurs at any position, letter case ignored
HasNoTag(text) ==
    \A tag \in Tags, i \in 1..Len(text) :
        ~(/\ i + Len(tag) - 1 <= Len(text)
          /\ \A k \in 1..Len(tag) : LowerChar(text[i + k - 1]) = tag[k])

InvalidRequest(r) ==
    IsBlank(r.lyrics) \/ HasNoTag(r.lyrics) \/ IsBlank(r.genre_description)

\* temporary files the request being served created
OwnTempFiles == {n \in DOMAIN tmpFiles : n[2] = reqNo}

Mp3InMix == {f \in DOMAIN mixFiles : f[3] = ".mp3"}

\* C1: when predict has returned or raised, no temporary genre or lyrics
\* file that this request created is left on disk.
C1_NoTempFileRemains == pc = "done" => OwnTempFiles = {}

\* C2: a request with blank lyrics, lyrics without any tag, or a blank genre
\* description ends with an invalid-input error in the very step that
\* examines it, and that step creates no temporary file, leaves the output
\* directory as it was and launches no subprocess.
C2_RejectionHasNoSideEffects ==
    [][(pc = "idle" /\ pc' # "idle" /\ InvalidRequest(req'))
        => /\ pc' = "done"
           /\ result' = [status |-> "ValueError", outputs |-> <<>>]
           /\ launches' = 0
           /\ command' = <<>>
           /\ UNCHANGED <<tmpFiles, outExists, outEntries, mixExists,
                          mixFiles, cwd>>]_vars

C2_Witness ==
    /\ pc = "done"
    /\ reqNo = 2
    /\ ~IsBlank(req.lyrics)
    /\ HasNoTag(req.lyrics)
    /\ result.status = "ValueError"
    /\ outEntries # {}

\* C3: while the inference subprocess of a request is being launched, the
\* output directory holds no entry that was there when the request began,
\* and no file is left below it in the mix directory.
C3_OutputDirClearedAtLaunch ==
    pc = "running"
        => /\ outEntries \cap pre.outEntries = {}
           /\ \A e \in outEntries : e.born = reqNo
           /\ ~mixExists
           /\ mixFiles = NoFiles

C3_Witness ==
    /\ pc = "running"
    /\ reqNo = 2
    /\ \E e \in pre.outEntries : e.born = 1 /\ e.kind = "dir"

\* C4: once the subprocess has exited with a non-zero status, the request
\* launches nothing more and renames nothing, and it ends with an error and
\* no output paths.
C4_NonZeroExitIsFatal ==
    (exitCode # <<>> /\ exitCode[1] # 0)
        => /\ launches = 1
           /\ renames = <<>>
           /\ output_files = <<>>
           /\ command = Command
           /\ pc \in {"finally_genre", "finally_lyrics", "done"}
           /\ pc = "done" => (result.status \notin {"ok", "none"}
                               /\ result.outputs = <<>>)

C4_Witness ==
    /\ pc = "done"
    /\ exitCode = <<1>>
    /\ result.status = "CalledProcessError"
    /\ Mp3InMix # {}

CollectorReturned ==
    /\ pc \in {"finally_genre", "finally_lyrics", "done"}
    /\ exc = "none"
    /\ exitCode = <<0>>

DigitValue(d) == (CHOOSE i \in 1..10 : Digits[i] = d) - 1

\* the integer a decimal argument denotes
RECURSIVE ParseInt(_)
ParseInt(s) ==
    IF s = <<>> THEN 0
    ELSE IF Head(s) = "-" THEN 0 - ParseInt(Tail(s))
    ELSE 10 * ParseInt(SubSeq(s, 1, Len(s) - 1)) + DigitValue(s[Len(s)])

\* C6: a seed that is unset or not positive resolves to an integer of
\* 0..2^31-1, a positive seed resolves to itself, and the --seed argument
\* of the launch reads as the resolved seed.
C6_SeedResolution ==
    pc # "idle"
        => /\ (req.seed = None \/ req.seed[1] <= 0) => seed \in 0..SeedMask
           /\ (req.seed # None /\ req.seed[1] > 0) => seed = req.seed[1]
           /\ command # <<>> => ParseInt(command.seed) = seed

C6_Witness ==
    /\ pc = "running"
    /\ req.seed = <<-1>>
    /\ seed = SeedMask
    /\ command.lyrics_txt = <<"lyrics_", 1>>
    /\ command.seed = <<"2", "1", "4", "7", "4", "8", "3", "6", "4", "7">>

\* C7: setup tests the bundles in list order, each at most once; the fetch
\* is launched for a bundle exactly when its path did not exist at the test;
\* a failed fetch is the last thing setup does.
C7_FetchOnlyIfAbsentAndAbortOnFailure ==
    /\ Len(visited) <= Len(models)
    /\ \A i \in DOMAIN visited :
          /\ visited[i].filename = models[i]
          /\ visited[i].fetched <=> ~visited[i].existed
          /\ ~visited[i].fetched => visited[i].status = 0
          /\ visited[i].status # 0 => (i = Len(visited) /\ setup_pc = "failed")
    /\ setup_pc = "done" => Len(visited) = Len(models)
    /\ setup_pc \in {"download", "check"}
          => Len(visited) = setup_i - 1

C7_Witness ==
    /\ setup_pc = "failed"
    /\ Len(visited) = 3
    /\ ~visited[1].fetched
    /\ visited[2].fetched
    /\ visited[3].fetched
    /\ visited[3].status = 1

\* C8: a request that changed the working directory ends with the working
\* directory it began with.
C8_WorkingDirectoryRestored ==
    (pc = "done" /\ launches > 0) => cwd = pre.cwd

\* C9: after a successful request the returned paths are pairwise distinct,
\* each names a file of the mix directory, and the mix directory holds as
\* many .mp3 files as were listed before the renaming.
C9_RenamingLosesNoFile ==
    (pc = "done" /\ result.status = "ok")
        => /\ \A i, j \in DOMAIN result.outputs :
                 result.outputs[i] = result.outputs[j] => i = j
           /\ \A i \in DOMAIN result.outputs :
                 result.outputs[i][5] \in DOMAIN mixFiles
           /\ Cardinality(Mp3InMix) = Len(mp3_files)

\* the bundle that holds a model identifier
BundleOf(identifier) == <<"models">> \o identifier

\* C10: the models of a launch are among the bundles setup resolved.
C10_SelectedModelsWereResolved ==
    pc = "running"
        => /\ BundleOf(command.stage1_model) \in {visited[i].filename : i \in DOMAIN visited}
           /\ BundleOf(command.stage2_model) \in {visited[i].filename : i \in DOMAIN visited}

====
